---- MODULE Spec2Model ----
(***************************************************************************)
(* A model of git_commit_analyzer.py: the command line run                 *)
(* (list -> summarize -> confirm -> squash) and its three functions        *)
(* get_commits, summarize_commits and squash_commits, together with the    *)
(* part of the environment they act on: the process working directory, a  *)
(* small directory tree holding git repositories, the commit graph of     *)
(* each repository, the remote service's response and the operator's      *)
(* answer.                                                                 *)
(*                                                                         *)
(* Strings are sequences of one-character strings, so that strip, split,  *)
(* join and lower are computed, not assumed.                               *)
(***************************************************************************)
EXTENDS Integers, Sequences, FiniteSets, TLC

\* ------------------------------------------------------------------ bounds

\* largest number of commits in an initial repository
MaxCommits == 4
\* longest response content tried by the summarizer specification
MaxLen == 4
\* depth of the directory chain /r/r/...
MaxDepth == 3

\* ----------------------------------------------------------------- strings

\* characters Python's str.strip() and str.split() treat as whitespace
Whitespace == {" ", "\n", "\t"}

\* the characters of the model's strings
Chars == {"a", " ", "\n"}

RECURSIVE LStrip(_)
LStrip(s) ==
    IF s # <<>> /\ Head(s) \in Whitespace THEN LStrip(Tail(s)) ELSE s

RECURSIVE RStrip(_)
RStrip(s) ==
    IF s # <<>> /\ s[Len(s)] \in Whitespace
    THEN RStrip(SubSeq(s, 1, Len(s) - 1))
    ELSE s

\* a strip that forgets the trailing whitespace
StripLeadingOnly(s) == LStrip(s)

\* str.strip()
Strip(s) == RStrip(LStrip(s))

\* str.split(sep): every separator splits, empty pieces are kept
RECURSIVE SplitOn(_, _, _)
SplitOn(s, sep, cur) ==
    IF s = <<>> THEN <<cur>>
    ELSE IF Head(s) = sep THEN <<cur>> \o SplitOn(Tail(s), sep, <<>>)
    ELSE SplitOn(Tail(s), sep, Append(cur, Head(s)))

SplitLines(s) == SplitOn(s, "\n", <<>>)

\* str.split(): runs of whitespace split, empty pieces are dropped
RECURSIVE SplitWords(_, _)
SplitWords(s, cur) ==
    IF s = <<>> THEN (IF cur = <<>> THEN <<>> ELSE <<cur>>)
    ELSE IF Head(s) \in Whitespace
         THEN (IF cur = <<>> THEN <<>> ELSE <<cur>>) \o SplitWords(Tail(s), <<>>)
         ELSE SplitWords(Tail(s), Append(cur, Head(s)))

Split(s) == SplitWords(s, <<>>)

\* sep.join(parts)
RECURSIVE Join(_, _)
Join(parts, sep) ==
    IF parts = <<>> THEN <<>>
    ELSE IF Len(parts) = 1 THEN parts[1]
    ELSE parts[1] \o sep \o Join(Tail(parts), sep)

\* str.lower() on one character
LowerChar(c) ==
    CASE c = "Y" -> "y"
      [] c = "N" -> "n"
      [] c = "E" -> "e"
      [] c = "S" -> "s"
      [] OTHER -> c

\* str.lower()
Lower(s) == [i \in DOMAIN s |-> LowerChar(s[i])]

\* all strings over Chars of length at most n
RECURSIVE StringsUpTo(_)
StringsUpTo(n) ==
    IF n = 0 THEN {<<>>}
    ELSE LET shorter == StringsUpTo(n - 1)
         IN  shorter \cup {Append(s, c) : s \in shorter, c \in Chars}

\* ------------------------------------------------------- commit graphs

\* an optional value: {} is Python's None, {v} is the value v
None == {}
Some(v) == {v}
TheValue(opt) == CHOOSE v \in opt : TRUE

\* a repository: commits[i] is the commit with id i (its hash), a larger id
\* is a later commit; head is the commit the branch points to, 0 when the
\* branch is unborn (no commits yet)
HashText == <<"1", "2", "3", "4", "5", "6", "7", "8", "9">>
Hash(i) == <<"h", HashText[i]>>

\* the messages of the initial commits
Subject(i) ==
    CASE i = 1 -> <<"a">>
      [] i = 2 -> <<"b", " ", " ", "c">>
      [] OTHER -> <<"d", " ", "e">>

\* the commits reachable from commit i (i included)
RECURSIVE ReachFrom(_, _)
ReachFrom(cs, i) ==
    IF i = 0 THEN {}
    ELSE {i} \cup UNION {ReachFrom(cs, cs[i].parents[j]) : j \in DOMAIN cs[i].parents}

Reachable(repo) == ReachFrom(repo.commits, repo.head)

SetMax(S) == CHOOSE m \in S : \A x \in S : x <= m

RECURSIVE NewestFirst(_)
NewestFirst(S) ==
    IF S = {} THEN <<>>
    ELSE LET m == SetMax(S) IN <<m>> \o NewestFirst(S \ {m})

\* the history of the branch, newest first (the order of git log)
History(repo) == NewestFirst(Reachable(repo))

\* HEAD~k: the k-th first-parent ancestor of i, 0 when there is none
RECURSIVE NthAncestor(_, _, _)
NthAncestor(cs, i, k) ==
    IF i = 0 \/ k = 0 THEN i
    ELSE IF cs[i].parents = <<>> THEN 0
    ELSE NthAncestor(cs, cs[i].parents[1], k - 1)

\* the parent lists a commit with id i can have: none for the first commit
\* (the root), else one earlier commit, or two earlier commits neither of
\* which is an ancestor of the other (a merge)
ParentChoices(cs, i) ==
    (IF i = 1 THEN {<<>>} ELSE {})
    \cup {<<p>> : p \in 1..(i - 1)}
    \cup {pq \in (1..(i - 1)) \X (1..(i - 1)) :
              /\ pq[1] # pq[2]
              /\ pq[2] \notin ReachFrom(cs, pq[1])
              /\ pq[1] \notin ReachFrom(cs, pq[2])}

RECURSIVE GraphsOfSize(_)
GraphsOfSize(k) ==
    IF k = 0 THEN {<<>>}
    ELSE UNION {{Append(cs, [parents |-> ps, msg |-> Subject(k)]) :
                    ps \in ParentChoices(cs, k)} : cs \in GraphsOfSize(k - 1)}

\* the initial repositories: every commit graph of at most MaxCommits commits
\* whose commits are all on the branch, and the repository with no commit yet
InitialRepos ==
    {r \in {[commits |-> cs, head |-> Len(cs)] :
               cs \in UNION {GraphsOfSize(k) : k \in 0..MaxCommits}} :
        Reachable(r) = DOMAIN r.commits}

\* a repository whose history is a single line: no commit is a merge
IsLinear(repo) ==
    \A i \in DOMAIN repo.commits : Len(repo.commits[i].parents) <= 1

\* git rev-list --count HEAD
CommitCount(repo) == Cardinality(Reachable(repo))

\* %s: the subject of a commit message is its first line
SubjectOf(msg) == SplitLines(msg)[1]

Min(a, b) == IF a <= b THEN a ELSE b

Take(seq, n) == SubSeq(seq, 1, Min(n, Len(seq)))

\* ------------------------------------------------------- the directories

\* the directory tree is the chain /, /r, /r/r, ... ; a directory is the
\* sequence of its names from the root
RECURSIVE DirOfDepth(_)
DirOfDepth(d) == IF d = 0 THEN <<>> ELSE Append(DirOfDepth(d - 1), "r")

Dirs == {DirOfDepth(d) : d \in 0..MaxDepth}

\* no directory (a path that does not resolve), no repository
NoDir == <<"?">>
NoRepo == <<"-">>

Parent(dir) == IF dir = <<>> THEN <<>> ELSE SubSeq(dir, 1, Len(dir) - 1)

\* a path is absolute or relative and a sequence of components, each a
\* name, "." or ".."
RECURSIVE Walk(_, _)
Walk(dir, comps) ==
    IF dir = NoDir \/ comps = <<>> THEN dir
    ELSE LET c == Head(comps)
             next == CASE c = "." -> dir
                       [] c = ".." -> Parent(dir)
                       [] OTHER -> IF Append(dir, c) \in Dirs
                                   THEN Append(dir, c) ELSE NoDir
         IN  Walk(next, Tail(comps))

\* os.chdir(path): where the path leads from the current directory
Resolve(from, path) == Walk(IF path.abs THEN <<>> ELSE from, path.comps)

\* the repository git finds from a directory: the nearest directory, from
\* there upwards, that is the root of a repository
RECURSIVE Discover(_, _)
Discover(roots, dir) ==
    IF dir \in roots THEN dir
    ELSE IF dir = <<>> THEN NoRepo
    ELSE Discover(roots, Parent(dir))

AbsPath(dir) == [abs |-> TRUE, comps |-> dir]
RelPath(comps) == [abs |-> FALSE, comps |-> comps]

Paths ==
    {AbsPath(d) : d \in Dirs}
    \cup {RelPath(c) : c \in {<<".">>, <<"r">>, <<"r", "r">>, <<"..">>, <<"..", "r">>}}

\* ------------------------------------------------------------- the state

VARIABLES
    pc,                 \* where the run is
    api_key,            \* os.environ.get('OPENROUTER_API_KEY'): None or a string
    repo_path,          \* args.repo_path
    num_commits,        \* args.num_commits: None or an integer
    response,           \* what the remote service answers the request with
    cwd,                \* the process working directory
    repos,              \* the repositories: root directory -> commit graph
    commits,            \* the list get_commits returned
    summary,            \* the string summarize_commits returned
    confirm,            \* the operator's answer, None until it is read
    sq_message,         \* squash_commits: new_message
    sq_num,             \* squash_commits: num_commits
    total_commits,      \* squash_commits: total_commits
    commits_to_squash,  \* squash_commits: commits_to_squash
    trace,              \* what the run did to the outside, in order
    error,              \* the exception that ended the run, "" if none
    exit_code,          \* the exit status, -1 while the run goes on
    cwd0,               \* the directory the process started in
    repos0              \* the repositories as they were before the run

vars == <<pc, api_key, repo_path, num_commits, response, cwd, repos, commits,
          summary, confirm, sq_message, sq_num, total_commits,
          commits_to_squash, trace, error, exit_code, cwd0, repos0>>

inputs == <<api_key, repo_path, num_commits, response, cwd0, repos0>>
squash_locals == <<sq_message, sq_num, total_commits, commits_to_squash>>

\* an entry of the trace: the operation, the repository a git command ran
\* in, its exit status and its numeric argument
Ev(op) == [op |-> op, repo |-> NoRepo, rc |-> 0, n |-> 0]
GitEv(op, repo, rc, n) == [op |-> op, repo |-> repo, rc |-> rc, n |-> n]

MutatingOps == {"git_reset_soft", "git_commit_amend"}
GitOps == {"git_log", "git_rev_list"} \cup MutatingOps

\* an uncaught exception ends the run with a traceback and status 1
Raise(exc) ==
    /\ pc' = "crashed"
    /\ error' = exc
    /\ exit_code' = 1

\* -------------------------------------------------------------- git

\* the repository a git command started in dir works on
RepoAt(dir) == Discover(DOMAIN repos, dir)

\* git log: the -n argument given (None: no -n), the lines it prints
LogLines(repo, limit) ==
    LET h == History(repo)
        shown == IF limit = None \/ TheValue(limit) < 0
                 THEN h ELSE Take(h, TheValue(limit))
    IN  [i \in DOMAIN shown |->
            Hash(shown[i]) \o <<" ">> \o SubjectOf(repo.commits[shown[i]].msg)]

\* the standard output of git log --pretty=format:'%H %s' [-n limit], run in
\* dir; nothing when git fails (no repository there, no commit yet, or the
\* environment makes it fail)
GitLogFails(dir, ok) ==
    \/ ~ok
    \/ RepoAt(dir) = NoRepo
    \/ repos[RepoAt(dir)].head = 0

GitLogStdout(dir, limit, ok) ==
    IF GitLogFails(dir, ok) THEN <<>>
    ELSE Join(LogLines(repos[RepoAt(dir)], limit), <<"\n">>)

\* git rev-list --count HEAD fails where git log does
RevListFails(dir, ok) == GitLogFails(dir, ok)

\* git reset --soft HEAD~k
ResetFails(dir, k, ok) ==
    \/ ~ok
    \/ RepoAt(dir) = NoRepo
    \/ NthAncestor(repos[RepoAt(dir)].commits, repos[RepoAt(dir)].head, k) = 0

ResetSoft(repo, k) ==
    [repo EXCEPT !.head = NthAncestor(repo.commits, repo.head, k)]

\* git commit --amend -m msg: git refuses an empty message, and there must
\* be a commit to amend
AmendFails(dir, msg, ok) ==
    \/ ~ok
    \/ RepoAt(dir) = NoRepo
    \/ repos[RepoAt(dir)].head = 0
    \/ Strip(msg) = <<>>

\* the commit at HEAD is replaced by a new commit (a new hash) with the same
\* parents and the new message
Amend(repo, msg) ==
    [commits |-> Append(repo.commits,
                        [parents |-> repo.commits[repo.head].parents,
                         msg |-> msg]),
     head |-> Len(repo.commits) + 1]

\* ------------------------------------------------------ get_commits

\* `if num_commits:` is true for an integer other than 0
Truthy(opt) == opt # None /\ TheValue(opt) # 0

\* the -n argument get_commits passes to git log (None: no -n)
LogLimit(limit) == IF Truthy(limit) THEN limit ELSE None

\* a split that takes an empty output for no line at all
LinesOrNone(stdout) ==
    IF Strip(stdout) = <<>> THEN <<>> ELSE SplitLines(Strip(stdout))

\* result.stdout.strip().split('\n')
OutputLines(stdout) == SplitLines(Strip(stdout))

\* c.split()[0] raises IndexError on a line without words
ParseFails(stdout) ==
    \E i \in DOMAIN OutputLines(stdout) : Split(OutputLines(stdout)[i]) = <<>>

\* the list comprehension of get_commits
ParseCommits(stdout) ==
    LET lines == OutputLines(stdout)
    IN  [i \in DOMAIN lines |->
            [hash |-> Split(lines[i])[1],
             message |-> Join(Tail(Split(lines[i])), <<" ">>)]]

\* get_commits(args.repo_path, args.num_commits)
GetCommits ==
    /\ pc = "get_commits"
    /\ LET dir == Resolve(cwd, repo_path)
       IN  IF dir = NoDir
           THEN /\ Raise("FileNotFoundError")
                /\ trace' = Append(trace, GitEv("chdir", NoRepo, 1, 0))
                /\ UNCHANGED <<cwd, commits>>
           ELSE \E ok \in BOOLEAN :
                LET stdout == GitLogStdout(dir, LogLimit(num_commits), ok)
                    ran == <<GitEv("chdir", NoRepo, 0, 0),
                             GitEv("git_log", RepoAt(dir),
                                   IF GitLogFails(dir, ok) THEN 1 ELSE 0, 0)>>
                IN  /\ cwd' = dir
                    /\ trace' = trace \o ran
                    /\ IF ParseFails(stdout)
                       THEN /\ Raise("IndexError")
                            /\ UNCHANGED commits
                       ELSE /\ commits' = ParseCommits(stdout)
                            /\ pc' = "print_commits"
                            /\ UNCHANGED <<error, exit_code>>
    /\ UNCHANGED <<inputs, repos, summary, confirm, squash_locals>>

\* ------------------------------------------------ summarize_commits

\* the responses: the request fails, or a response with a status and a body
\* that is not JSON, JSON without choices[0].message.content, or JSON with it
ConnError == [kind |-> "conn_error", status |-> 0, content |-> <<>>]
NotJson(status) == [kind |-> "not_json", status |-> status, content |-> <<>>]
NoChoices(status) == [kind |-> "no_choices", status |-> status, content |-> <<>>]
WellFormed(status, content) ==
    [kind |-> "ok", status |-> status, content |-> content]

\* summarize_commits(commits, api_key)
SummarizeCommits ==
    /\ pc = "summarize"
    /\ trace' = Append(trace, Ev("http_post"))
    /\ CASE response.kind = "conn_error" ->
                Raise("ConnectionError") /\ UNCHANGED summary
         [] response.kind = "not_json" ->
                Raise("JSONDecodeError") /\ UNCHANGED summary
         [] response.kind = "no_choices" ->
                Raise("KeyError") /\ UNCHANGED summary
         [] OTHER ->
                /\ summary' = Strip(response.content)
                /\ pc' = "print_summary"
                /\ UNCHANGED <<error, exit_code>>
    /\ UNCHANGED <<inputs, cwd, repos, commits, confirm, squash_locals>>

\* --------------------------------------------------- squash_commits

\* squash_commits, to the computation of commits_to_squash
SquashCount ==
    /\ pc = "squash"
    /\ LET dir == Resolve(cwd, repo_path)
       IN  IF dir = NoDir
           THEN /\ Raise("FileNotFoundError")
                /\ trace' = Append(trace, GitEv("chdir", NoRepo, 1, 0))
                /\ UNCHANGED <<cwd, total_commits, commits_to_squash>>
           ELSE \E ok \in BOOLEAN :
                LET fails == RevListFails(dir, ok)
                    ran == <<GitEv("chdir", NoRepo, 0, 0),
                             GitEv("git_rev_list", RepoAt(dir),
                                   IF fails THEN 1 ELSE 0, 0)>>
                IN  /\ cwd' = dir
                    /\ trace' = trace \o ran
                    /\ IF fails
                       THEN \* int('') raises ValueError
                            /\ Raise("ValueError")
                            /\ UNCHANGED <<total_commits, commits_to_squash>>
                       ELSE /\ total_commits' = CommitCount(repos[RepoAt(dir)])
                            /\ commits_to_squash' =
                                   Min(sq_num, CommitCount(repos[RepoAt(dir)]))
                            /\ pc' = "squash_branch"
                            /\ UNCHANGED <<error, exit_code>>
    /\ UNCHANGED <<inputs, repos, commits, summary, confirm, sq_message, sq_num>>

\* one git command that changes the repository
RunReset(k, ok) ==
    LET fails == ResetFails(cwd, k, ok)
    IN  /\ trace' = Append(trace, GitEv("git_reset_soft", RepoAt(cwd),
                                        IF fails THEN 1 ELSE 0, k))
        /\ repos' = IF fails THEN repos
                    ELSE [repos EXCEPT ![RepoAt(cwd)] = ResetSoft(@, k)]

RunAmend(msg, ok) ==
    LET fails == AmendFails(cwd, msg, ok)
    IN  /\ trace' = Append(trace, GitEv("git_commit_amend", RepoAt(cwd),
                                        IF fails THEN 1 ELSE 0, 0))
        /\ repos' = IF fails THEN repos
                    ELSE [repos EXCEPT ![RepoAt(cwd)] = Amend(@, msg)]

\* the if/elif/else on commits_to_squash: the soft reset (the amend
\* follows), the amend alone, or the report that there is nothing to squash
SquashBranch ==
    /\ pc = "squash_branch"
    /\ IF commits_to_squash > 1
       THEN /\ \E ok \in BOOLEAN : RunReset(commits_to_squash - 1, ok)
            /\ pc' = "squash_amend"
       ELSE IF commits_to_squash = 1
       THEN /\ \E ok \in BOOLEAN : RunAmend(sq_message, ok)
            /\ pc' = "squash_return"
       ELSE /\ trace' = Append(trace, Ev("print_no_commits"))
            /\ pc' = "squash_return"
            /\ UNCHANGED repos
    /\ UNCHANGED <<inputs, cwd, commits, summary, confirm, squash_locals,
                   error, exit_code>>

\* commits_to_squash > 1: the amend that follows the reset
SquashAmend ==
    /\ pc = "squash_amend"
    /\ \E ok \in BOOLEAN : RunAmend(sq_message, ok)
    /\ pc' = "squash_return"
    /\ UNCHANGED <<inputs, cwd, commits, summary, confirm, squash_locals,
                   error, exit_code>>

\* ------------------------------------------------------------- __main__

\* a test that takes only an unset variable for a missing key
ApiKeyIsNone(key) == key = None

\* `if not api_key:` is true for None and for the empty string
ApiKeyMissing(key) == key = None \/ TheValue(key) = <<>>

\* the credential check
CheckApiKey ==
    /\ pc = "main"
    /\ IF ApiKeyMissing(api_key)
       THEN /\ trace' = Append(trace, Ev("print_error"))
            /\ pc' = "exited"
            /\ exit_code' = 1
       ELSE /\ pc' = "get_commits"
            /\ UNCHANGED <<trace, exit_code>>
    /\ UNCHANGED <<inputs, cwd, repos, commits, summary, confirm,
                   squash_locals, error>>

\* the commit list is printed
PrintCommits ==
    /\ pc = "print_commits"
    /\ trace' = Append(trace, [Ev("print_commits") EXCEPT !.n = Len(commits)])
    /\ pc' = "summarize"
    /\ UNCHANGED <<inputs, cwd, repos, commits, summary, confirm,
                   squash_locals, error, exit_code>>

\* the summary is printed
PrintSummary ==
    /\ pc = "print_summary"
    /\ trace' = Append(trace, Ev("print_summary"))
    /\ pc' = "confirm"
    /\ UNCHANGED <<inputs, cwd, repos, commits, summary, confirm,
                   squash_locals, error, exit_code>>

\* the answers the operator may type
Answers ==
    {<<>>, <<"y">>, <<"Y">>, <<"n">>, <<"N">>, <<"y", "e", "s">>,
     <<"Y", "E", "S">>, <<" ", "y">>, <<"y", " ">>}

\* a test that takes every answer starting with y or Y
StartsWithY(answer) == answer # <<>> /\ Lower(answer)[1] = "y"

\* confirm.lower() == 'y'
Affirmative(answer) == Lower(answer) = <<"y">>

\* the prompt, the answer and the branch on it: squash_commits is called
\* with the summary and the number of commits listed, or the run is cancelled
Confirm ==
    /\ pc = "confirm"
    /\ \/ \E answer \in Answers :
            /\ confirm' = Some(answer)
            /\ IF Affirmative(answer)
               THEN /\ trace' = Append(trace, Ev("input"))
                    /\ sq_message' = summary
                    /\ sq_num' = Len(commits)
                    /\ pc' = "squash"
                    /\ UNCHANGED <<error, exit_code>>
               ELSE /\ trace' = trace \o <<Ev("input"), Ev("print_cancelled")>>
                    /\ pc' = "done"
                    /\ exit_code' = 0
                    /\ UNCHANGED <<sq_message, sq_num, error>>
       \/ \* the input ends before an answer: input() raises EOFError
          /\ trace' = Append(trace, Ev("input"))
          /\ Raise("EOFError")
          /\ UNCHANGED <<confirm, sq_message, sq_num>>
    /\ UNCHANGED <<inputs, cwd, repos, commits, summary, total_commits,
                   commits_to_squash>>

\* squash_commits has returned: the success message
PrintSquashed ==
    /\ pc = "squash_return"
    /\ trace' = Append(trace, Ev("print_squashed"))
    /\ pc' = "done"
    /\ exit_code' = 0
    /\ UNCHANGED <<inputs, cwd, repos, commits, summary, confirm,
                   squash_locals, error>>

\* ------------------------------------------------------- specifications

\* the values of --num-commits and of squash_commits' count
Counts == 0..(MaxCommits + 1)
Limits == {None} \cup {Some(n) : n \in {-1} \cup Counts}

ApiKeys == {None, Some(<<>>), Some(<<"k">>)}

\* the responses of the command line runs
Responses ==
    {ConnError, NotJson(500), NoChoices(401), WellFormed(500, <<"a">>),
     WellFormed(200, <<" ", "a", " ", "a", " ">>),
     WellFormed(200, <<"a", "\n", "a">>), WellFormed(200, <<" ">>)}

\* every well-formed response with a content of at most MaxLen characters
ShortResponses == {WellFormed(200, c) : c \in StringsUpTo(MaxLen)}

TheRepoDir == <<"r">>

Locals ==
    /\ commits = <<>>
    /\ summary = <<>>
    /\ confirm = None
    /\ sq_message = <<>>
    /\ sq_num = 0
    /\ total_commits = 0
    /\ commits_to_squash = 0
    /\ trace = <<>>
    /\ error = ""
    /\ exit_code = -1

\* a command line run on the repository /r, started in /
Init ==
    /\ pc = "main"
    /\ api_key \in ApiKeys
    /\ repo_path = AbsPath(TheRepoDir)
    /\ num_commits \in Limits
    /\ response \in Responses
    /\ cwd = <<>>
    /\ cwd0 = cwd
    /\ repos \in [{TheRepoDir} -> InitialRepos]
    /\ repos0 = repos
    /\ Locals

Next ==
    \/ CheckApiKey
    \/ GetCommits
    \/ PrintCommits
    \/ SummarizeCommits
    \/ PrintSummary
    \/ Confirm
    \/ SquashCount
    \/ SquashBranch
    \/ SquashAmend
    \/ PrintSquashed

Spec == Init /\ [][Next]_vars

\* command line runs over the directory tree: any set of directories holds
\* repositories (each with two commits), the run starts in any directory and
\* repo_path is any path
TwoCommits == CHOOSE r \in InitialRepos : Len(r.commits) = 2

InitPaths ==
    /\ pc = "main"
    /\ api_key = Some(<<"k">>)
    /\ repo_path \in Paths
    /\ num_commits = None
    /\ response = WellFormed(200, <<"a">>)
    /\ cwd \in Dirs
    /\ cwd0 = cwd
    /\ \E roots \in SUBSET Dirs : repos = [d \in roots |-> TwoCommits]
    /\ repos0 = repos
    /\ Locals

PathSpec == InitPaths /\ [][Next]_vars

\* squash_commits called on its own, with any count and message
Messages == {<<>>, <<"a">>, <<"a", "\n", "a">>}

InitSquash ==
    /\ pc = "squash"
    /\ api_key = Some(<<"k">>)
    /\ repo_path = AbsPath(TheRepoDir)
    /\ num_commits = None
    /\ response = ConnError
    /\ cwd = <<>>
    /\ cwd0 = cwd
    /\ repos \in [{TheRepoDir} -> InitialRepos]
    /\ repos0 = repos
    /\ commits = <<>>
    /\ summary = <<>>
    /\ confirm = None
    /\ sq_message \in Messages
    /\ sq_num \in Counts
    /\ total_commits = 0
    /\ commits_to_squash = 0
    /\ trace = <<>>
    /\ error = ""
    /\ exit_code = -1

NextSquash ==
    \/ SquashCount
    \/ SquashBranch
    \/ SquashAmend

SquashSpec == InitSquash /\ [][NextSquash]_vars

\* summarize_commits called on its own, with any short well-formed response
InitSummarize ==
    /\ pc = "summarize"
    /\ api_key = Some(<<"k">>)
    /\ repo_path = AbsPath(TheRepoDir)
    /\ num_commits = None
    /\ response \in ShortResponses \cup Responses
    /\ cwd = <<>>
    /\ cwd0 = cwd
    /\ repos = [d \in {TheRepoDir} |-> TwoCommits]
    /\ repos0 = repos
    /\ Locals

NextSummarize == SummarizeCommits

SummarizeSpec == InitSummarize /\ [][NextSummarize]_vars

\* ------------------------------------------------------------ the claims

TheRepo == repos[TheRepoDir]
TheRepo0 == repos0[TheRepoDir]

\* the positions of the trace where a command that changes a repository ran
MutatingAt == {i \in DOMAIN trace : trace[i].op \in MutatingOps}

RECURSIVE SelectOps(_, _)
SelectOps(tr, ops) ==
    IF tr = <<>> THEN <<>>
    ELSE (IF Head(tr).op \in ops THEN <<Head(tr)>> ELSE <<>>)
         \o SelectOps(Tail(tr), ops)

\* the commands that change a repository, in the order they were issued
MutatingCommands ==
    LET evs == SelectOps(trace, MutatingOps)
    IN  [i \in DOMAIN evs |-> <<evs[i].op, evs[i].n>>]

Said(op) == \E i \in DOMAIN trace : trace[i].op = op

\* C1: no command that changes the repository is issued before the answer to
\* the confirmation prompt is read, and an answer other than 'y' or 'Y' issues
\* none: the run prints the cancellation notice, ends normally and leaves the
\* repositories as they were.
C1_MutationOnlyAfterYes ==
    /\ \A i \in MutatingAt :
          /\ confirm \in {Some(<<"y">>), Some(<<"Y">>)}
          /\ \E j \in 1..(i - 1) : trace[j].op = "input"
    /\ confirm = None => repos = repos0
    /\ (confirm # None /\ confirm \notin {Some(<<"y">>), Some(<<"Y">>)}) =>
          /\ MutatingAt = {}
          /\ repos = repos0
          /\ pc = "done"
          /\ exit_code = 0
          /\ error = ""
          /\ trace[Len(trace)].op = "print_cancelled"

C1_Witness ==
    /\ confirm = Some(<<"y", "e", "s">>)
    /\ pc = "done"
    /\ Said("print_cancelled")
    /\ CommitCount(TheRepo0) > 1

\* C2: with OPENROUTER_API_KEY unset or empty the run reports the error and
\* exits with a non-zero status before anything else: no chdir, no git command,
\* no HTTP request, no prompt, no change of a repository.
C2_MissingKeyStopsFirst ==
    api_key \in {None, Some(<<>>)} =>
        \/ pc = "main" /\ trace = <<>> /\ exit_code = -1
        \/ /\ pc = "exited"
           /\ exit_code = 1
           /\ trace = <<Ev("print_error")>>
           /\ cwd = cwd0
           /\ repos = repos0
           /\ confirm = None

C2_Witness ==
    /\ api_key = Some(<<>>)
    /\ pc = "exited"
    /\ CommitCount(TheRepo0) > 1

\* C3: for a history of k > 0 commits get_commits returns k entries without a
\* limit and min(k, limit) entries with a limit (0 included), newest first.
\* (Stated for the limits that are not negative.)
C3_ListLength ==
    (pc = "print_commits" /\ CommitCount(TheRepo0) > 0
       /\ (num_commits = None \/ TheValue(num_commits) >= 0)) =>
        LET k == CommitCount(TheRepo0)
            want == IF num_commits = None THEN k
                    ELSE Min(k, TheValue(num_commits))
        IN  /\ Len(commits) = want
            /\ \A i \in DOMAIN commits :
                  commits[i].hash = Hash(History(TheRepo0)[i])

\* C4: squash_commits computes c = min(n, t) and issues exactly: for c > 1 a
\* soft reset to HEAD~(c-1) then an amend; for c = 1 an amend; for c = 0 (the
\* empty repository included) nothing, and it reports that there is nothing
\* to squash.  (Stated for the calls in which the commit count is read, and
\* for the empty repository.)
SquashEnded == pc \in {"squash_return", "crashed"}

C4_SquashCommands ==
    LET t == CommitCount(TheRepo0)
        c == Min(sq_num, t)
        counted == \E i \in DOMAIN trace :
                       trace[i].op = "git_rev_list" /\ trace[i].rc = 0
    IN  (SquashEnded /\ sq_num >= 0 /\ (counted \/ t = 0)) =>
            /\ c > 1 => MutatingCommands =
                           << <<"git_reset_soft", c - 1>>, <<"git_commit_amend", 0>> >>
            /\ c = 1 => MutatingCommands = << <<"git_commit_amend", 0>> >>
            /\ c = 0 => MutatingCommands = <<>> /\ Said("print_no_commits")

\* C5: with t >= 1 commits, a message m and a count n >= 1, a squash in which
\* every git command succeeds leaves t - min(n, t) + 1 commits, the newest with
\* message m, and every commit older than the min(n, t) most recent unchanged.
AllGitSucceeded ==
    \A i \in DOMAIN trace : trace[i].op \in GitOps => trace[i].rc = 0

C5_SquashResult ==
    LET t == CommitCount(TheRepo0)
        c == Min(sq_num, t)
        before == History(TheRepo0)
        after == History(TheRepo)
    IN  (pc = "squash_return" /\ sq_num >= 1 /\ t >= 1 /\ AllGitSucceeded) =>
            /\ Len(after) = t - c + 1
            /\ TheRepo.commits[TheRepo.head].msg = sq_message
            /\ Tail(after) = SubSeq(before, c + 1, t)
            /\ \A i \in 1..Len(TheRepo0.commits) :
                  TheRepo.commits[i] = TheRepo0.commits[i]

\* C5, for the histories without a merge (what the code achieves)
C5_LinearSquashResult ==
    IsLinear(TheRepo0) => C5_SquashResult

\* C6: a failure of an external step is surfaced and never ignored: after a
\* git command that failed no later step runs and the success message is not
\* printed.  (Stated for the git commands.)
C6_GitFailureStops ==
    \A i \in DOMAIN trace :
        (trace[i].op \in GitOps /\ trace[i].rc # 0) =>
            /\ i = Len(trace)
            /\ pc = "crashed"
            /\ ~Said("print_squashed")

\* C7: for a well-formed response summarize_commits returns the content with
\* leading and trailing whitespace removed, and the result holds no newline,
\* whatever the content.
AllWhitespace(s) == \A i \in DOMAIN s : s[i] \in Whitespace

\* r is s without its leading and trailing whitespace
IsTrimOf(r, s) ==
    /\ \E i \in 0..Len(s) :
          /\ i + Len(r) <= Len(s)
          /\ SubSeq(s, i + 1, i + Len(r)) = r
          /\ AllWhitespace(SubSeq(s, 1, i))
          /\ AllWhitespace(SubSeq(s, i + Len(r) + 1, Len(s)))
    /\ r # <<>> => r[1] \notin Whitespace /\ r[Len(r)] \notin Whitespace

SingleLine(s) == \A i \in DOMAIN s : s[i] # "\n"

C7_TrimmedSingleLine ==
    pc = "print_summary" =>
        IsTrimOf(summary, response.content) /\ SingleLine(summary)

\* C7 as amended: the content with leading and trailing whitespace removed is
\* returned; the newlines inside it are kept, so the result is a single line
\* exactly when the content has no newline between its first and its last
\* character that is not whitespace.
C7_Trimmed ==
    pc = "print_summary" =>
        /\ IsTrimOf(summary, response.content)
        /\ SingleLine(summary) <=>
              \A i \in DOMAIN response.content :
                  response.content[i] = "\n" =>
                      \/ AllWhitespace(SubSeq(response.content, 1, i))
                      \/ AllWhitespace(SubSeq(response.content, i,
                                              Len(response.content)))

C7_Witness ==
    /\ pc = "print_summary"
    /\ response.content = <<" ", "a", "\n", "a">>
    /\ summary = <<"a", "\n", "a">>

\* C8: every git command of the Lister and of the Squasher runs in the same
\* repository, the one repo_path names from the directory the process started
\* in, for absolute and for relative paths.  (Stated for the git commands
\* that found a repository to run in.)
TargetRepo == Discover(DOMAIN repos0, Resolve(cwd0, repo_path))

C8_SameRepository ==
    \A i \in DOMAIN trace :
        (trace[i].op \in GitOps /\ trace[i].repo # NoRepo) =>
            trace[i].repo = TargetRepo

\* C9: when the repository has no commit, get_commits fails with an error: the
\* run ends in the Lister, with no HTTP request, no prompt, no call of
\* squash_commits and no change of the repository.
C9_EmptyRepositoryFailsInLister ==
    (TheRepo0.head = 0 /\ api_key = Some(<<"k">>)) =>
        /\ pc \in {"main", "get_commits", "crashed"}
        /\ pc = "crashed" => error = "IndexError" /\ exit_code = 1
        /\ \A i \in DOMAIN trace : trace[i].op \in {"chdir", "git_log"}
        /\ commits = <<>>
        /\ repos = repos0

C9_Witness ==
    /\ TheRepo0.head = 0
    /\ pc = "crashed"
    /\ Said("git_log")

\* C10: a squash of c > 1 commits in which the reset succeeds and the amend
\* fails ends with the branch moved back by c-1 commits, the message at HEAD
\* not replaced and no further command; and this is the only state between
\* the original and the squashed one that a failed squash can leave.
ResetRan(rc) ==
    \E i \in DOMAIN trace : trace[i].op = "git_reset_soft" /\ trace[i].rc = rc
AmendRan(rc) ==
    \E i \in DOMAIN trace : trace[i].op = "git_commit_amend" /\ trace[i].rc = rc

C10_OnlyPartialState ==
    LET c == commits_to_squash
        moved == ResetSoft(TheRepo0, c - 1)
    IN  (pc = "squash_return" /\ c > 1) =>
            /\ (ResetRan(0) /\ AmendRan(1)) =>
                  /\ TheRepo = moved
                  /\ Len(MutatingCommands) = 2
            /\ (ResetRan(1) \/ AmendRan(1)) =>
                  TheRepo \in {TheRepo0, moved}

\* the partial state of C10 is reached
C10_PartialStateReached ==
    /\ pc = "squash_return"
    /\ commits_to_squash > 1
    /\ ResetRan(0) /\ AmendRan(1)
    /\ TheRepo = ResetSoft(TheRepo0, commits_to_squash - 1)
    /\ TheRepo # TheRepo0

====
